---------------------------- MODULE Spec2Model ----------------------------
(***************************************************************************)
(* A model of the Gaphor code generator, utils/model/gen_uml.py.           *)
(*                                                                         *)
(* generate() reads a schema (classes, generalizations, extensions,        *)
(* properties, associations, operations), and writes class declarations    *)
(* and property descriptors to one output stream.  The schema is chosen in *)
(* the initial state; every stage of generate() is one action, which runs  *)
(* the whole loop of that stage, every call it makes included.             *)
(*                                                                         *)
(* The class table iterates in id order (dict insertion order); the        *)
(* generalization graph ranges over every acyclic graph on the ids, so     *)
(* every pairing of a graph with an iteration order occurs.                *)
(***************************************************************************)
EXTENDS Integers, Sequences, FiniteSets, TLC

\* ------------------------------------------------------------------ bounds
NumClasses == 3
NumAttrs == 2
NumAssocs == 2

\* Python's None, for a reference to a class or to an association.
None == 0
\* Python's None, for a string-valued field.
Nil == "None"

ClassIds == 1..NumClasses

VARIABLES
    pc,                 \* the stage generate() is about to run
    generalization,     \* class -> sequence of its parents (val.generalization)
    appliedStereotype,  \* class -> name of its first applied stereotype, or Nil
    extensions,         \* sequence of Extension records: memberEnd types
    overrides,          \* key -> "none" | "text" | "derives": the override registry
    properties,         \* sequence of Property records; the index is the id
    associations,       \* sequence of Association records (memberEnd: two ids)
    operations,         \* sequence of Operation records
    classes,            \* the ids held in the classes dict
    stereotypeName,     \* class -> val.stereotypeName
    written,            \* class -> val.written
    ignored_classes,    \* set of classes tagged SimpleAttribute
    enriched,           \* property id -> the fields generate() sets on the record
    derivedattributes,  \* the dict of deferred attributes: sequence of <<name, id>>
    derivedunions,      \* the dict of derived unions: sequence of <<name, id>>
    redefines,          \* the list of redefining ends
    out,                \* the output stream: sequence of lines
    log                 \* stderr: sequence of messages

vars == <<pc, generalization, appliedStereotype, extensions, overrides, properties,
          associations, operations, classes, stereotypeName, written,
          ignored_classes, enriched, derivedattributes, derivedunions, redefines,
          out, log>>

schema == <<generalization, appliedStereotype, extensions, overrides, properties,
            associations, operations>>

\* ------------------------------------------------------------ small helpers
RECURSIVE SeqOfSet(_)
SeqOfSet(S) ==
    IF S = {} THEN <<>>
    ELSE LET m == CHOOSE x \in S : \A y \in S : x <= y
         IN <<m>> \o SeqOfSet(S \ {m})

Range(s) == {s[i] : i \in DOMAIN s}

Indices(s, P(_)) == {i \in DOMAIN s : P(s[i])}

Count(s, P(_)) == Cardinality(Indices(s, P))

IsPrefix(s, t) == Len(s) <= Len(t) /\ SubSeq(t, 1, Len(s)) = s

\* A for loop over todo that an exception (st.err) leaves.
RECURSIVE ForEach(_, _, _)
ForEach(Step(_, _), st, todo) ==
    IF todo = <<>> \/ st.err THEN st
    ELSE ForEach(Step, Step(st, Head(todo)), Tail(todo))

\* dict[key] = value on an insertion-ordered dict held as a sequence of pairs.
DictPut(d, key, value) ==
    IF \E i \in DOMAIN d : d[i][1] = key
    THEN [i \in DOMAIN d |-> IF d[i][1] = key THEN <<key, value>> ELSE d[i]]
    ELSE Append(d, <<key, value>>)

DictHas(d, key) == \E i \in DOMAIN d : d[i][1] = key

DictGet(d, key) == d[CHOOSE i \in DOMAIN d : d[i][1] = key][2]

DictValues(d) == [i \in DOMAIN d |-> d[i][2]]

\* ------------------------------------------------------------ output lines
\* One record per write to the output stream.  kind is what the text is, by is
\* the writer that produced it, cls/name the 'Class.feature' key (name "" for a
\* class), src the record it was written for.
Line(kind, by, cls, name, src) ==
    [kind |-> kind, by |-> by, cls |-> cls, name |-> name, src |-> src,
     bases |-> <<>>, type |-> "", target |-> None, params |-> {},
     members |-> <<>>]

Msg(what, cls, name) == [what |-> what, cls |-> cls, name |-> name]

\* --------------------------------------------------------- override registry
Key(cls, name) == <<cls, name>>

has_override(key) == key \in DOMAIN overrides /\ overrides[key] # "none"

derives(key) == key \in DOMAIN overrides /\ overrides[key] = "derives"

\* write_override(writer, key): writes the replacement text and answers whether
\* it did.
write_override(st, by, cls, name, src) ==
    IF has_override(Key(cls, name))
    THEN [st EXCEPT !.out = Append(@, Line("override", by, cls, name, src))]
    ELSE st

\* ------------------------------------------------------------- class graph
\* val.specialization: the children of a class.
specialization(c) ==
    SeqOfSet({d \in ClassIds : c \in Range(generalization[d])})

\* The relation is acyclic when following parents from any class ends; checked
\* on at most NumClasses levels so that it is defined on cyclic graphs too.
RECURSIVE Reach(_, _, _)
Reach(g, S, n) ==
    IF n = 0 THEN S
    ELSE Reach(g, S \cup UNION {Range(g[c]) : c \in S}, n - 1)

Acyclic(g) ==
    \A c \in ClassIds : c \notin Reach(g, Range(g[c]), Cardinality(ClassIds))

\* --------------------------------------------------------- metaclass filter
\* The first member end of an extension that has a type names the metaclass.
ResolvedEnds(e) == SelectSeq(e, LAMBDA t : t # None)

\* del classes[e.memberEnd[0].type.id] for every extension; a KeyError when the
\* class is not (or no longer) in the table.
RECURSIVE RemoveMetaclasses(_, _)
RemoveMetaclasses(r, i) ==
    IF ~r.ok \/ i > Len(extensions) THEN r
    ELSE LET members == ResolvedEnds(extensions[i])
         IN IF members = <<>> THEN RemoveMetaclasses(r, i + 1)
            ELSE IF members[1] \notin r.classes THEN [r EXCEPT !.ok = FALSE]
            ELSE RemoveMetaclasses([r EXCEPT !.classes = @ \ {members[1]}], i + 1)

Metaclasses == {ResolvedEnds(extensions[i])[1] :
                   i \in {j \in DOMAIN extensions : ResolvedEnds(extensions[j]) # <<>>}}

FilterMetaclasses ==
    /\ pc = "metaclasses"
    /\ LET r == RemoveMetaclasses([ok |-> TRUE, classes |-> classes], 1)
       IN IF r.ok
          THEN pc' = "header" /\ classes' = r.classes
          ELSE pc' = "aborted" /\ UNCHANGED classes
    /\ UNCHANGED <<schema, stereotypeName, written, ignored_classes, enriched,
                   derivedattributes, derivedunions, redefines, out, log>>

\* ------------------------------------------------------------------ header
WriteHeader ==
    /\ pc = "header"
    /\ out' = Append(out, Line("header", "generate", None, "", None))
    /\ pc' = "tag"
    /\ UNCHANGED <<schema, classes, stereotypeName, written, ignored_classes, enriched,
                   derivedattributes, derivedunions, redefines, log>>

\* ------------------------------------------------------------ stereotypes
\* The state the writers thread through: the output stream, stderr and the
\* fields they set on the records.
Machine ==
    [out |-> out, log |-> log, stereotypeName |-> stereotypeName,
     written |-> written, enriched |-> enriched,
     derivedattributes |-> derivedattributes, derivedunions |-> derivedunions,
     redefines |-> redefines, err |-> FALSE]

TagLine(c, sType, root, by) ==
    [Line("comment", by, c, "", root) EXCEPT !.type = sType]

\* tag_children(me): every specialization child gets the tag and one line, then
\* its own children are visited.
RECURSIVE tag_children(_, _, _, _), tag_children_from(_, _, _, _, _)
tag_children_from(st, root, sType, me, i) ==
    LET kids == specialization(me)
    IN IF i > Len(kids) THEN st
       ELSE LET child == kids[i]
                st1 == [st EXCEPT !.stereotypeName[child] = sType,
                                  !.out = Append(@, TagLine(child, sType, root,
                                                            "tag_children"))]
            IN tag_children_from(tag_children(st1, root, sType, child),
                                 root, sType, me, i + 1)

tag_children(st, root, sType, me) == tag_children_from(st, root, sType, me, 1)

\* The loop over classes.values(): a class with an applied stereotype is tagged
\* and the tag handed down.
RECURSIVE TagLoop(_, _)
TagLoop(st, todo) ==
    IF todo = <<>> THEN st
    ELSE LET c == Head(todo)
             sType == appliedStereotype[c]
             st1 == [st EXCEPT !.stereotypeName[c] = sType,
                               !.out = Append(@, TagLine(c, sType, c, "generate"))]
         IN TagLoop(IF sType # Nil THEN tag_children(st1, c, sType, c) ELSE st,
                    Tail(todo))

TagClasses ==
    /\ pc = "tag"
    /\ LET st == TagLoop(Machine, SeqOfSet(classes))
       IN /\ stereotypeName' = st.stereotypeName
          /\ out' = st.out
    /\ pc' = "classdefs"
    /\ UNCHANGED <<schema, classes, written, ignored_classes, enriched,
                   derivedattributes, derivedunions, redefines, log>>

\* -------------------------------------------------------- class definitions
\* write_classdef(clazz): the parents first, then the class itself, guarded by
\* the written flag.
RECURSIVE write_classdef(_, _), write_parents(_, _, _)
\* write_classdef without the written guard.
write_classdef_unguarded(st, c) ==
    LET st1 == write_parents(st, c, 1)
    IN [st1 EXCEPT !.out = Append(@, [Line("classdef", "write_classdef", c, "", c)
                                         EXCEPT !.bases = generalization[c]]),
                   !.written[c] = TRUE]

\* write_classdef that writes the class before its parents.
write_classdef_child_first(st, c) ==
    IF st.written[c] THEN st
    ELSE write_parents(
            [st EXCEPT !.out = Append(@, [Line("classdef", "write_classdef", c, "", c)
                                             EXCEPT !.bases = generalization[c]]),
                       !.written[c] = TRUE],
            c, 1)

write_parents(st, c, i) ==
    IF i > Len(generalization[c]) THEN st
    ELSE write_parents(write_classdef(st, generalization[c][i]), c, i + 1)

write_classdef(st, c) ==
    IF st.written[c] THEN st
    ELSE LET st1 == write_parents(st, c, 1)
             st2 == IF has_override(Key(c, ""))
                    THEN write_override(st1, "write_classdef", c, "", c)
                    ELSE [st1 EXCEPT !.out = Append(@,
                             [Line("classdef", "write_classdef", c, "", c)
                                 EXCEPT !.bases = generalization[c]])]
         IN [st2 EXCEPT !.written[c] = TRUE]

\* The loop that creates the class definitions, not for SimpleAttribute.
RECURSIVE ClassDefLoop(_, _)
ClassDefLoop(st, todo) ==
    IF todo = <<>> THEN st
    ELSE LET c == Head(todo)
         IN ClassDefLoop(IF stereotypeName[c] = "SimpleAttribute" THEN st
                         ELSE write_classdef(st, c),
                         Tail(todo))

WriteClassDefs ==
    /\ pc = "classdefs"
    /\ LET st == ClassDefLoop(Machine, SeqOfSet(classes))
       IN /\ written' = st.written
          /\ out' = st.out
    /\ ignored_classes' = {c \in classes : stereotypeName[c] = "SimpleAttribute"}
    /\ pc' = "attributes"
    /\ UNCHANGED <<schema, classes, stereotypeName, enriched,
                   derivedattributes, derivedunions, redefines, log>>

\* ----------------------------------------------------------------- records
\* A Property record as the parser hands it over.
Property(name, class_, typeValue) ==
    [name |-> name, class_ |-> class_, association |-> None,
     typeValue |-> typeValue, defaultValue |-> Nil, lowerValue |-> Nil,
     upperValue |-> Nil, isDerived |-> FALSE, type |-> None,
     aggregation |-> Nil, subsetsTag |-> <<>>, redefinesTag |-> Nil]

\* The fields generate() adds to a Property record, before it has set any.
Plain(p) ==
    [class_name |-> None, typeValue |-> p.typeValue, written |-> FALSE,
     navigable |-> FALSE, opposite_class_name |-> None, lower |-> Nil,
     upper |-> Nil, subsets |-> <<>>, composite |-> FALSE, derived |-> FALSE,
     redefines |-> Nil, is_simple_attribute |-> FALSE, hasUnion |-> FALSE,
     union |-> <<>>]

\* c.ownedAttribute, in id order.
ownedAttribute(c) ==
    SeqOfSet({i \in DOMAIN properties : properties[i].class_ = c})

ownedOperation(c) ==
    SeqOfSet({i \in DOMAIN operations : operations[i].class_ = c})

\* The enumerations dict: the classes whose name ends in Kind or Sort.
EnumerationNames == {"VisibilityKind"}

IsEnumType(t) == t \in {"VisibilityKind", "OrderSort"}

\* e.enumerates: the names of the owned attributes of the enumeration.
enumerates == <<"public", "private">>

\* --------------------------------------------------------------- attributes
write_property(st, by, cls, name, src, line) ==
    IF has_override(Key(cls, name))
    THEN write_override(st, by, cls, name, src)
    ELSE [st EXCEPT !.out = Append(@, line)]

\* The type of the descriptor: boolean, integer and unlimitednatural are int,
\* string is str, whatever the case.
TargetType(t) ==
    IF t \in {"Boolean", "boolean", "Integer", "UnlimitedNatural"} THEN "int"
    ELSE IF t \in {"String", "string"} THEN "str"
    ELSE t

DefaultParam(default) ==
    IF default = Nil THEN {}
    ELSE IF default \in {"true", "True", "TRUE"} THEN {<<"default", "True">>}
    ELSE IF default \in {"false", "False", "FALSE"} THEN {<<"default", "False">>}
    ELSE {<<"default", default>>}

\* params["lower"] as if the implicit lower were 1.
LowerParam_default_one(lower) ==
    IF lower # Nil /\ lower # "" /\ lower # "1" THEN {<<"lower", lower>>} ELSE {}

\* params["lower"]: only a lower that is given and not "0".
LowerParam(lower) ==
    IF lower # Nil /\ lower # "" /\ lower # "0" THEN {<<"lower", lower>>} ELSE {}

\* params["upper"]: "*" as the quoted wildcard, else an upper that is given and
\* not "1".
UpperParam(upper) ==
    IF upper = "*" THEN {<<"upper", "'*'">>}
    ELSE IF upper # Nil /\ upper # "" /\ upper # "1" THEN {<<"upper", upper>>}
    ELSE {}

\* write_attribute that does not look at isDerived.
write_attribute_derived_too(st, p, enums) ==
    LET a == properties[p]
        cls == st.enriched[p].class_name
        type == st.enriched[p].typeValue
    IN IF type = Nil THEN [st EXCEPT !.err = TRUE]
       ELSE write_property(st, "write_attribute", cls, a.name, p,
               [Line("attribute", "write_attribute", cls, a.name, p)
                   EXCEPT !.type = TargetType(type)])

write_attribute(st, p, enums) ==
    LET a == properties[p]
        cls == st.enriched[p].class_name
        type == st.enriched[p].typeValue
        params == DefaultParam(a.defaultValue) \cup LowerParam(a.lowerValue)
                     \cup UpperParam(a.upperValue)
    IN IF type = Nil THEN [st EXCEPT !.err = TRUE]
       ELSE IF has_override(Key(cls, a.name))
       THEN write_override(st, "write_attribute", cls, a.name, p)
       ELSE IF a.isDerived
       THEN [st EXCEPT !.log = Append(@, Msg("ignoring derived attribute", cls, a.name))]
       ELSE IF IsEnumType(TargetType(type))
       THEN IF TargetType(type) \notin enums THEN [st EXCEPT !.err = TRUE]
            ELSE write_property(st, "write_attribute", cls, a.name, p,
                    [Line("enumeration", "write_attribute", cls, a.name, p)
                        EXCEPT !.type = TargetType(type),
                               !.params = IF a.defaultValue \in {Nil, ""}
                                          THEN {<<"default", enumerates[1]>>}
                                          ELSE DefaultParam(a.defaultValue)])
       ELSE write_property(st, "write_attribute", cls, a.name, p,
               [Line("attribute", "write_attribute", cls, a.name, p)
                   EXCEPT !.type = TargetType(type), !.params = params])

\* One owned attribute of class c in the first pass: it gets its class_name;
\* unless it is an association end, it is deferred when the registry says it
\* derives, and written otherwise.
\* The first pass without the deferral.
AttributeStep_no_deferral(st, c, p) ==
    LET st1 == [st EXCEPT !.enriched[p].class_name = c]
    IN IF properties[p].association # None THEN st1
       ELSE write_attribute(st1, p, EnumerationNames)

AttributeStep(st, c, p) ==
    LET a == properties[p]
        st1 == [st EXCEPT !.enriched[p].class_name = c]
    IN IF a.association # None THEN st1
       ELSE IF derives(Key(c, a.name))
       THEN [st1 EXCEPT !.derivedattributes = DictPut(@, a.name, p)]
       ELSE write_attribute(st1, p, EnumerationNames)

AttributeLoop(st) ==
    ForEach(LAMBDA s1, c : ForEach(LAMBDA s2, p : AttributeStep(s2, c, p),
                                   s1, ownedAttribute(c)),
            st, SeqOfSet(classes \ ignored_classes))

\* The variables a stage leaves in state st; an exception ends the run.
Leave(st, next) ==
    /\ pc' = IF st.err THEN "aborted" ELSE next
    /\ out' = st.out
    /\ log' = st.log
    /\ enriched' = st.enriched
    /\ derivedattributes' = st.derivedattributes
    /\ derivedunions' = st.derivedunions
    /\ redefines' = st.redefines

WriteAttributes ==
    /\ pc = "attributes"
    /\ Leave(AttributeLoop(Machine), "associations")
    /\ UNCHANGED <<schema, classes, stereotypeName, written, ignored_classes>>

\* -------------------------------------------------------------- associations
\* parse_association_end(head, tail): a head without an owning class is not
\* navigable and gets nothing; a navigable head gets its names, its
\* multiplicity (no upper is "*", no lower is the upper, a lower "*" is 0) and
\* its tags.
ResolvedUpper(a) == IF a.upperValue \in {Nil, ""} THEN "*" ELSE a.upperValue

\* ResolvedLower that sets the lower to 0 whenever the upper is the wildcard.
ResolvedLower_clamp_on_upper(a) ==
    IF ResolvedUpper(a) = "*" THEN "0"
    ELSE IF a.lowerValue \in {Nil, ""} THEN ResolvedUpper(a)
    ELSE a.lowerValue

ResolvedLower(a) ==
    LET lower == IF a.lowerValue \in {Nil, ""} THEN ResolvedUpper(a)
                 ELSE a.lowerValue
    IN IF lower = "*" THEN "0" ELSE lower

parse_association_end(st, head) ==
    LET a == properties[head]
    IN IF a.class_ = None THEN st
       ELSE [st EXCEPT !.enriched[head] =
                [@ EXCEPT !.navigable = TRUE,
                          !.class_name = a.class_,
                          !.opposite_class_name = a.type,
                          !.lower = ResolvedLower(a),
                          !.upper = ResolvedUpper(a),
                          !.subsets = a.subsetsTag,
                          !.composite = (a.aggregation = "composite"),
                          !.derived = a.isDerived,
                          !.redefines = a.redefinesTag]]

\* write_association(head, tail): nothing for a head already written; else
\* the descriptor, with lower unless 0, upper unless "*", composite when set,
\* and the tail's name as opposite when the tail is navigable.
\* write_association that never names the opposite end.
write_association_no_opposite(st, head, tail) ==
    LET h == st.enriched[head]
        params == (IF h.lower # "0" THEN {<<"lower", h.lower>>} ELSE {})
            \cup (IF h.upper # "*" THEN {<<"upper", h.upper>>} ELSE {})
            \cup (IF h.composite THEN {<<"composite", "True">>} ELSE {})
    IN IF h.written THEN st
       ELSE write_property(st, "write_association", h.class_name,
               properties[head].name, head,
               [Line("association", "write_association", h.class_name,
                     properties[head].name, head)
                   EXCEPT !.target = h.opposite_class_name, !.params = params])

write_association(st, head, tail) ==
    LET h == st.enriched[head]
        params == (IF h.lower # "0" THEN {<<"lower", h.lower>>} ELSE {})
            \cup (IF h.upper # "*" THEN {<<"upper", h.upper>>} ELSE {})
            \cup (IF h.composite THEN {<<"composite", "True">>} ELSE {})
            \cup (IF st.enriched[tail].navigable
                  THEN {<<"opposite", properties[tail].name>>} ELSE {})
    IN IF h.written THEN st
       ELSE write_property(st, "write_association", h.class_name,
               properties[head].name, head,
               [Line("association", "write_association", h.class_name,
                     properties[head].name, head)
                   EXCEPT !.target = h.opposite_class_name, !.params = params])

Truthy(str) == str \notin {Nil, ""}

\* RouteEnd that tests derived before redefines.
RouteEnd_derived_first(st, asAttr, e1, e2) ==
    LET h == st.enriched[e1]
        name == properties[e1].name
    IN IF asAttr # None
       THEN IF asAttr = e1 /\ h.navigable
            THEN LET cls == properties[e2].type
                     st1 == [st EXCEPT
                               !.out = Append(@, Line("comment", "generate", cls,
                                                      name, e1)),
                               !.enriched[e1].class_name = cls,
                               !.enriched[e1].typeValue = "str"]
                     st2 == write_attribute(st1, e1, EnumerationNames)
                 IN IF st2.err THEN st2
                    ELSE [st2 EXCEPT !.enriched[e1].written = TRUE,
                                     !.enriched[e2].written = TRUE]
            ELSE st
       ELSE IF h.derived \/ derives(Key(h.class_name, name))
       THEN IF DictHas(st.derivedunions, name) THEN [st EXCEPT !.err = TRUE]
            ELSE [st EXCEPT !.derivedunions = DictPut(@, name, e1),
                            !.enriched[e1].hasUnion = TRUE,
                            !.enriched[e1].union = <<>>,
                            !.enriched[e1].written = FALSE]
       ELSE IF Truthy(h.redefines)
       THEN [st EXCEPT !.redefines = Append(@, e1)]
       ELSE IF h.navigable THEN write_association(st, e1, e2)
       ELSE st

\* One end e1 of an association whose asAttribute is asAttr: the disposition of
\* the end.
RouteEnd(st, asAttr, e1, e2) ==
    LET h == st.enriched[e1]
        name == properties[e1].name
    IN IF asAttr # None
       THEN IF asAttr = e1 /\ h.navigable
            THEN LET cls == properties[e2].type
                     st1 == [st EXCEPT
                               !.out = Append(@, Line("comment", "generate", cls,
                                                      name, e1)),
                               !.enriched[e1].class_name = cls,
                               !.enriched[e1].typeValue = "str"]
                     st2 == write_attribute(st1, e1, EnumerationNames)
                 IN IF st2.err THEN st2
                    ELSE [st2 EXCEPT !.enriched[e1].written = TRUE,
                                     !.enriched[e2].written = TRUE]
            ELSE st
       ELSE IF Truthy(h.redefines)
       THEN [st EXCEPT !.redefines = Append(@, e1)]
       ELSE IF h.derived \/ derives(Key(h.class_name, name))
       THEN IF DictHas(st.derivedunions, name) THEN [st EXCEPT !.err = TRUE]
            ELSE [st EXCEPT !.derivedunions = DictPut(@, name, e1),
                            !.enriched[e1].hasUnion = TRUE,
                            !.enriched[e1].union = <<>>,
                            !.enriched[e1].written = FALSE]
       ELSE IF h.navigable THEN write_association(st, e1, e2)
       ELSE st

\* One association: its member ends are resolved against the classes dict (a
\* KeyError for a class that is not in it), both are parsed, both are routed.
AssociationStep(st, j) ==
    LET e1 == associations[j].memberEnd[1]
        e2 == associations[j].memberEnd[2]
        Resolves(e) ==
            /\ properties[e].type \in classes
            /\ properties[e].class_ # None => properties[e].class_ \in classes
        Simple(e) == st.stereotypeName[properties[e].type] = "SimpleAttribute"
        asAttr == IF Simple(e2) THEN e2 ELSE IF Simple(e1) THEN e1 ELSE None
        st1 == [st EXCEPT !.enriched[e1].is_simple_attribute = Simple(e1),
                          !.enriched[e2].is_simple_attribute = Simple(e2)]
        st2 == parse_association_end(parse_association_end(st1, e1), e2)
        st3 == RouteEnd(st2, asAttr, e1, e2)
    IN IF ~(Resolves(e1) /\ Resolves(e2)) THEN [st EXCEPT !.err = TRUE]
       ELSE IF st3.err THEN st3
       ELSE RouteEnd(st3, asAttr, e2, e1)

WriteAssociations ==
    /\ pc = "associations"
    /\ Leave(ForEach(AssociationStep, Machine, SeqOfSet(DOMAIN associations)),
             "link")
    /\ UNCHANGED <<schema, classes, stereotypeName, written, ignored_classes>>

\* ------------------------------------------------------------ derived unions
\* Every property with subsets is appended to the union of each derived union
\* it names, unless its type is an ignored class; a name that is no derived
\* union is logged.
LinkStep(st, a, s) ==
    IF properties[a].type \in ignored_classes THEN st
    ELSE IF DictHas(st.derivedunions, s)
    THEN [st EXCEPT !.enriched[DictGet(st.derivedunions, s)].union = Append(@, a)]
    ELSE [st EXCEPT !.log = Append(@, Msg("not a derived union",
                                          st.enriched[a].class_name, s))]

LinkUnions ==
    /\ pc = "link"
    /\ Leave(ForEach(LAMBDA s1, a : ForEach(LAMBDA s2, s : LinkStep(s2, a, s),
                                            s1, s1.enriched[a].subsets),
                     Machine, SeqOfSet(DOMAIN properties)),
             "derivedattributes")
    /\ UNCHANGED <<schema, classes, stereotypeName, written, ignored_classes>>

\* The deferred attributes, written without the enumerations.
WriteDerivedAttributes ==
    /\ pc = "derivedattributes"
    /\ Leave(ForEach(LAMBDA st, d : write_attribute(st, d, {}),
                     Machine, DictValues(derivedattributes)),
             "derivedunions")
    /\ UNCHANGED <<schema, classes, stereotypeName, written, ignored_classes>>

UnionUpper(upper) == IF upper = "*" THEN "'*'" ELSE upper

\* write_derivedunion(d): first every member that is derived and not written,
\* then d itself, with a message when it has no members and no override.
RECURSIVE write_derivedunion(_, _), write_members(_, _, _)
write_members(st, d, i) ==
    IF st.err \/ i > Len(st.enriched[d].union) THEN st
    ELSE LET u == st.enriched[d].union[i]
         IN write_members(IF st.enriched[u].derived /\ ~st.enriched[u].written
                          THEN write_derivedunion(st, u) ELSE st,
                          d, i + 1)

write_derivedunion(st, d) ==
    IF ~st.enriched[d].hasUnion THEN [st EXCEPT !.err = TRUE]
    ELSE LET st1 == write_members(st, d, 1)
             e == st1.enriched[d]
             name == properties[d].name
             subs == [i \in DOMAIN e.union |->
                         Key(st1.enriched[e.union[i]].class_name,
                             properties[e.union[i]].name)]
             line == [Line("derivedunion", "write_derivedunion", e.class_name,
                           name, d)
                         EXCEPT !.target = e.opposite_class_name,
                                !.params = {<<"lower", e.lower>>,
                                            <<"upper", UnionUpper(e.upper)>>},
                                !.members = subs]
             st2 == IF subs = <<>> /\ ~has_override(Key(e.class_name, name))
                    THEN [st1 EXCEPT !.log = Append(@,
                             Msg("no subsets for derived union", e.class_name, name))]
                    ELSE st1
             st3 == write_property(st2, "write_derivedunion", e.class_name, name,
                                   d, line)
         IN IF st1.err THEN st1
            ELSE [st3 EXCEPT !.enriched[d].written = TRUE]

WriteDerivedUnions ==
    /\ pc = "derivedunions"
    /\ Leave(ForEach(write_derivedunion, Machine, DictValues(derivedunions)),
             "redefines")
    /\ UNCHANGED <<schema, classes, stereotypeName, written, ignored_classes>>

\* ----------------------------------------------------------------- redefines
write_redefine(st, r) ==
    LET e == st.enriched[r]
    IN write_property(st, "write_redefine", e.class_name, properties[r].name, r,
           [Line("redefine", "write_redefine", e.class_name, properties[r].name, r)
               EXCEPT !.type = e.redefines, !.target = e.opposite_class_name])

WriteRedefines ==
    /\ pc = "redefines"
    /\ Leave(ForEach(LAMBDA st, r :
                       write_redefine([st EXCEPT !.log = Append(@,
                           Msg("redefining", st.enriched[r].class_name,
                               properties[r].name))], r),
                     Machine, redefines),
             "operations")
    /\ UNCHANGED <<schema, classes, stereotypeName, written, ignored_classes>>

\* ---------------------------------------------------------------- operations
write_operation(st, c, o) ==
    IF has_override(Key(c, operations[o].name))
    THEN write_override(st, "write_operation", c, operations[o].name, o)
    ELSE [st EXCEPT !.log = Append(@, Msg("No override for operation", c,
                                          operations[o].name))]

WriteOperations ==
    /\ pc = "operations"
    /\ Leave(ForEach(LAMBDA s1, c : ForEach(LAMBDA s2, o : write_operation(s2, c, o),
                                            s1, ownedOperation(c)),
                     Machine, SeqOfSet(classes \ ignored_classes)),
             "close")
    /\ UNCHANGED <<schema, classes, stereotypeName, written, ignored_classes>>

Close ==
    /\ pc = "close"
    /\ pc' = "done"
    /\ UNCHANGED <<schema, classes, stereotypeName, written, ignored_classes,
                   enriched, derivedattributes, derivedunions, redefines, out, log>>

\* --------------------------------------------------------------- the schema
\* The acyclic generalization graphs, each class's parents in id order.
Generalizations ==
    {g \in {[c \in ClassIds |-> SeqOfSet(ps[c])] :
                ps \in [ClassIds -> SUBSET ClassIds]} : Acyclic(g)}

StereotypeNames == {Nil, "SimpleAttribute", "Other"}

\* No extension, or one whose second member end is the first that has a type.
\* The metaclass leaves the table before any loop over it, so which id it has
\* does not matter to the order of the others.
ExtensionTables == {<<>>, <<(<<None, NumClasses>>)>>}

NoOverrides == [k \in {} |-> "none"]

\* No override, or replacement text for the first class of the table.
FirstClass == CHOOSE c \in ClassIds : \A d \in ClassIds : c <= d

ClassOverrides == {NoOverrides, [k \in {Key(FirstClass, "")} |-> "text"]}

\* The state after the elements are classified and the generalizations linked.
Start(g, a, e, o, p, as, ops) ==
    /\ pc = "metaclasses"
    /\ generalization = g
    /\ appliedStereotype = a
    /\ extensions = e
    /\ overrides = o
    /\ properties = p
    /\ associations = as
    /\ operations = ops
    /\ classes = ClassIds
    /\ stereotypeName = [c \in ClassIds |-> Nil]
    /\ written = [c \in ClassIds |-> FALSE]
    /\ ignored_classes = {}
    /\ enriched = [i \in DOMAIN p |-> Plain(p[i])]
    /\ derivedattributes = <<>>
    /\ derivedunions = <<>>
    /\ redefines = <<>>
    /\ out = <<>>
    /\ log = <<>>

NoGeneralization == [c \in ClassIds |-> <<>>]

NoStereotypes == [c \in ClassIds |-> Nil]

LastClass == CHOOSE c \in ClassIds : \A d \in ClassIds : d <= c

\* No class is stereotyped, or the last one is a SimpleAttribute.
SimpleAttributeChoices ==
    {NoStereotypes, [NoStereotypes EXCEPT ![LastClass] = "SimpleAttribute"]}

OverrideKinds == {"none", "text", "derives"}

\* The 'Class.feature' keys of the owned properties of a schema.
KeysOf(p) == {Key(p[i].class_, p[i].name) : i \in DOMAIN p}

\* Attributes of the first or the last class, of a plain or an enumeration
\* type, derived or not, two of which may bear the same name.
AttrShapes ==
    {[Property(n, c, t) EXCEPT !.isDerived = d] :
        n \in {"x", "y"}, c \in {FirstClass, LastClass},
        t \in {"String", "VisibilityKind"}, d \in BOOLEAN}

InitAttrs ==
    \E a \in SimpleAttributeChoices, p \in [1..NumAttrs -> AttrShapes] :
        \E o \in [KeysOf(p) -> OverrideKinds] :
            Start(NoGeneralization, a, <<>>, o, p, <<>>, <<>>)

\* The declared bounds of a multiplicity: absent, 0, 1, a larger integer, *.
Bounds == {Nil, "0", "1", "2", "*"}

\* One attribute of the first class, with every declared multiplicity.
InitMult ==
    \E lower \in Bounds, upper \in Bounds, t \in {"String", "Boolean"},
       default \in {Nil, "true"} :
        Start(NoGeneralization, NoStereotypes, <<>>, NoOverrides,
              <<[Property("x", FirstClass, t) EXCEPT !.lowerValue = lower,
                                                      !.upperValue = upper,
                                                      !.defaultValue = default]>>,
              <<>>, <<>>)

\* ------------------------------------------------------ association schemas
\* An association end named name, of type type, owned by class_ (None when it
\* is not navigable).
End(name, class_, type) == [Property(name, class_, Nil) EXCEPT !.type = type]

\* The properties table of a schema: the attributes, then the two member ends
\* of every association, each end bound to its association.
RECURSIVE EndsOf(_, _)
EndsOf(shapes, j) ==
    IF j > Len(shapes) THEN <<>>
    ELSE <<[shapes[j][1] EXCEPT !.association = j],
           [shapes[j][2] EXCEPT !.association = j]>> \o EndsOf(shapes, j + 1)

PropertiesOf(attrs, shapes) == attrs \o EndsOf(shapes, 1)

AssociationsOf(attrs, shapes) ==
    [j \in DOMAIN shapes |->
        [memberEnd |-> <<Len(attrs) + 2 * j - 1, Len(attrs) + 2 * j>>]]

\* The ends of one association between classes A and B: end b of type B, owned
\* by A when navigable, and end a of type A, owned by B when navigable; each
\* derived or not, redefining or not, composite or not, of upper 1 or "*".
EndVariants(name, owner, type) ==
    {[End(name, class_, type) EXCEPT !.isDerived = d, !.redefinesTag = r,
                                     !.aggregation = g, !.upperValue = u] :
        class_ \in {None, owner}, d \in BOOLEAN, r \in {Nil, "r"},
        g \in {Nil, "composite"}, u \in {"1", "*"}}

\* One association, from the first class to itself or to the last class; the
\* last class may be a SimpleAttribute or a metaclass, and the registry may
\* hold an entry for end b.
InitAssoc ==
    \E B \in {FirstClass, LastClass}, a \in SimpleAttributeChoices,
       e \in ExtensionTables, k \in OverrideKinds :
        \E e1 \in EndVariants("b", FirstClass, B), e2 \in EndVariants("a", B, FirstClass) :
            Start(NoGeneralization, a, e, [key \in {Key(FirstClass, "b")} |-> k],
                  PropertiesOf(<<>>, <<(<<e1, e2>>)>>),
                  AssociationsOf(<<>>, <<(<<e1, e2>>)>>), <<>>)

\* One association between the first class and itself or the last class, its
\* two ends plain, each navigable or not and of every declared lower and upper.
EndMultiplicities(name, owner, type) ==
    {[End(name, class_, type) EXCEPT !.lowerValue = l, !.upperValue = u] :
        class_ \in {None, owner}, l \in Bounds, u \in Bounds}

InitEnds ==
    \E B \in {FirstClass, LastClass} :
        \E e1 \in EndMultiplicities("b", FirstClass, B),
           e2 \in EndMultiplicities("a", B, FirstClass) :
            Start(NoGeneralization, NoStereotypes, <<>>, NoOverrides,
                  PropertiesOf(<<>>, <<(<<e1, e2>>)>>),
                  AssociationsOf(<<>>, <<(<<e1, e2>>)>>), <<>>)

\* The names of the first ends of the associations.
EndNames == <<"u", "v", "w", "z">>

\* Association j of a family of derived unions: its first end, named
\* EndNames[j] and owned by the first class, is derived or not and subsets
\* nothing or the first end of another association; its second end is not
\* navigable.
UnionShapes(j) ==
    {<<[End(EndNames[j], FirstClass, LastClass)
           EXCEPT !.isDerived = d, !.subsetsTag = t],
       End("o", None, FirstClass)>> :
        d \in BOOLEAN,
        t \in {<<>>} \cup {<<EndNames[k]>> : k \in (1..NumAssocs) \ {j}}}

\* No derived end subsets, directly or not, itself: write_derivedunion ends.
RECURSIVE Supersets(_, _, _)
Supersets(shapes, j, n) ==
    IF n = 0 THEN {}
    ELSE LET up == {k \in DOMAIN shapes :
                      /\ EndNames[k] \in Range(shapes[j][1].subsetsTag)
                      /\ shapes[k][1].isDerived /\ shapes[j][1].isDerived}
         IN up \cup UNION {Supersets(shapes, k, n - 1) : k \in up}

UnionsAcyclic(shapes) ==
    \A j \in DOMAIN shapes : j \notin Supersets(shapes, j, Len(shapes))

UnionFamilies ==
    {shapes \in [1..NumAssocs -> UNION {UnionShapes(j) : j \in 1..NumAssocs}] :
        /\ \A j \in 1..NumAssocs : shapes[j] \in UnionShapes(j)
        /\ UnionsAcyclic(shapes)}

InitUnions ==
    \E k \in {"none", "text"}, shapes \in UnionFamilies :
        Start(NoGeneralization, NoStereotypes, <<>>,
              [key \in {Key(FirstClass, EndNames[NumAssocs])} |-> k],
              PropertiesOf(<<>>, shapes), AssociationsOf(<<>>, shapes), <<>>)

\* Association j of a whole schema: a plain association of the first class
\* with itself, one to the last class (folded when that is a SimpleAttribute),
\* a derived union, a redefinition, or a plain end that subsets the union of
\* the first association.
MixedShapes(j) ==
    {<<End(EndNames[j], FirstClass, FirstClass), End("o", FirstClass, FirstClass)>>,
     <<End("o", LastClass, FirstClass), End(EndNames[j], FirstClass, LastClass)>>,
     <<[End(EndNames[j], FirstClass, FirstClass) EXCEPT !.isDerived = TRUE],
       End("o", None, FirstClass)>>,
     <<[End(EndNames[j], FirstClass, FirstClass) EXCEPT !.redefinesTag = "r"],
       End("o", None, FirstClass)>>,
     <<[End(EndNames[j], FirstClass, FirstClass)
           EXCEPT !.subsetsTag = <<EndNames[1]>>],
       End("o", None, FirstClass)>>}

MixedFamilies ==
    {shapes \in [1..NumAssocs -> UNION {MixedShapes(j) : j \in 1..NumAssocs}] :
        \A j \in 1..NumAssocs : shapes[j] \in MixedShapes(j)}

\* The attributes of a whole schema: x, the derived y, or z that has no type.
MixedAttrs ==
    [1..NumAttrs -> {Property("x", FirstClass, "String"),
                     [Property("y", FirstClass, "Boolean") EXCEPT !.isDerived = TRUE],
                     Property("z", FirstClass, Nil)}]

Operation(name, class_) == [name |-> name, class_ |-> class_]

\* A whole schema: a generalization between the first two classes, attributes,
\* associations and an operation of the first class; the registry may defer
\* attribute y and may override the operation.
InitMixed ==
    \E a \in SimpleAttributeChoices, ky \in {"none", "derives"},
       kf \in {"none", "text"}, attrs \in MixedAttrs, shapes \in MixedFamilies :
        Start([NoGeneralization EXCEPT ![FirstClass] = <<FirstClass + 1>>], a, <<>>,
              [key \in {Key(FirstClass, "y"), Key(FirstClass, "f")} |->
                  IF key = Key(FirstClass, "y") THEN ky ELSE kf],
              PropertiesOf(attrs, shapes), AssociationsOf(attrs, shapes),
              <<Operation("f", FirstClass)>>)

InitClasses ==
    \E o \in ClassOverrides, e \in ExtensionTables,
       a \in [ClassIds -> StereotypeNames], g \in Generalizations :
        Start(g, a, e, o, <<>>, <<>>, <<>>)

Next ==
    \/ FilterMetaclasses
    \/ WriteHeader
    \/ TagClasses
    \/ WriteClassDefs
    \/ WriteAttributes
    \/ WriteAssociations
    \/ LinkUnions
    \/ WriteDerivedAttributes
    \/ WriteDerivedUnions
    \/ WriteRedefines
    \/ WriteOperations
    \/ Close

SpecClasses == InitClasses /\ [][Next]_vars

SpecAttrs == InitAttrs /\ [][Next]_vars

SpecMult == InitMult /\ [][Next]_vars

SpecAssoc == InitAssoc /\ [][Next]_vars

SpecEnds == InitEnds /\ [][Next]_vars

SpecUnions == InitUnions /\ [][Next]_vars

Spec == InitMixed /\ [][Next]_vars

\* ------------------------------------------------------- class declarations
IsDecl(l) ==
    l.kind = "classdef" \/ (l.kind = "override" /\ l.by = "write_classdef")

Declarations(c) == Count(out, LAMBDA l : IsDecl(l) /\ l.cls = c)

\* The classes that are to be emitted: in the table once the metaclasses are
\* removed, and not tagged SimpleAttribute.
EmissionSet == {c \in classes : stereotypeName[c] # "SimpleAttribute"}

Children(c) == {d \in ClassIds : c \in Range(generalization[d])}

\* C1: no class declaration is ever written twice, and when generate() has
\* finished every class of the emission set has exactly one declaration (the
\* synthesized one or its class-level override).
C1_EachClassDeclaredOnce ==
    /\ \A c \in ClassIds : Declarations(c) <= 1
    /\ pc = "done" => \A c \in EmissionSet : Declarations(c) = 1

\* A finished run over a graph in which an emitted class is reached twice: it
\* has two emitted children, one of them a child of the other (a diamond
\* folded onto three classes), and an overridden class is emitted too.
C1_Witness ==
    /\ pc = "done"
    /\ \E c, d, e \in EmissionSet :
          /\ {d, e} \subseteq Children(c) /\ e \in Children(d)
          /\ Declarations(c) = 1
    /\ \E c \in EmissionSet : has_override(Key(c, ""))

\* C2: in the output, the declaration of every parent of a declared class
\* comes strictly before the declaration of that class.
C2_ParentsBeforeChildren ==
    \A i \in DOMAIN out :
        IsDecl(out[i]) =>
            \A p \in Range(generalization[out[i].cls]) :
                \E j \in 1..(i - 1) : IsDecl(out[j]) /\ out[j].cls = p

\* A finished run in which a class with two parents comes before both of them
\* in the class table and is declared after both.
C2_Witness ==
    /\ pc = "done"
    /\ \E c \in EmissionSet :
          /\ Len(generalization[c]) >= 2
          /\ \A p \in Range(generalization[c]) : c < p
          /\ Declarations(c) = 1

\* ------------------------------------------------------------ propagation
RECURSIVE Descendants(_, _)
Descendants(c, n) ==
    IF n = 0 THEN {}
    ELSE Children(c) \cup UNION {Descendants(d, n - 1) : d \in Children(c)}

TagRoots == {c \in classes : appliedStereotype[c] # Nil}

Visits(root, d) ==
    Count(out, LAMBDA l : l.kind = "comment" /\ l.by = "tag_children"
                             /\ l.src = root /\ l.cls = d)

\* C5: once the tags are propagated, every transitive specialization
\* descendant of a class with an applied stereotype has been visited exactly
\* once from that class: one 'stereotyped as ... too' line per descendant and
\* tagged class.
C5_EachDescendantVisitedOnce ==
    pc \notin {"metaclasses", "header", "tag"} =>
        \A r \in TagRoots :
            \A d \in Descendants(r, Cardinality(ClassIds)) : Visits(r, d) = 1

\* ---------------------------------------------------------------- metaclasses
\* C9: no class declaration is ever written for a metaclass.
C9_MetaclassNeverDeclared ==
    \A i \in DOMAIN out : IsDecl(out[i]) => out[i].cls \notin Metaclasses

\* ------------------------------------------------------------------ attributes
\* The lines write_attribute wrote for property p.
AttributeLines(p) ==
    Count(out, LAMBDA l : l.by = "write_attribute" /\ l.src = p)

\* An owned attribute of an emitted class that is derived and has no entry in
\* the override registry.
DerivedNoOverride(p) ==
    /\ properties[p].association = None
    /\ properties[p].class_ \in classes \ ignored_classes
    /\ properties[p].isDerived
    /\ ~has_override(Key(properties[p].class_, properties[p].name))

Deferred == Range(DictValues(derivedattributes))

FirstPassDone == pc \notin {"metaclasses", "header", "tag", "classdefs", "attributes"}

Logged(what, cls, name) == \E i \in DOMAIN log : log[i] = Msg(what, cls, name)

Param(params, key) == (CHOOSE kv \in params : kv[1] = key)[2]

HasParam(params, key) == \E kv \in params : kv[1] = key

\* The upper of an emitted descriptor: the quoted wildcard is "*", no upper
\* parameter is the descriptor's implicit 1.
ReadUpper(params) ==
    IF ~HasParam(params, "upper") THEN "1"
    ELSE IF Param(params, "upper") = "'*'" THEN "*"
    ELSE Param(params, "upper")

\* The lower read back as C6 states it: an omitted lower is the upper, and a
\* lower under a wildcard upper is 0.
ReadLowerAsClaimed(params) ==
    IF ReadUpper(params) = "*" THEN "0"
    ELSE IF HasParam(params, "lower") THEN Param(params, "lower")
    ELSE ReadUpper(params)

\* The lower read back under the descriptor's implicit default: an omitted
\* lower is 0.
ReadLower(params) ==
    IF HasParam(params, "lower") THEN Param(params, "lower") ELSE "0"

\* The declared multiplicity, an absent lower being 0 and an absent upper 1.
DeclaredLower(a) == IF a.lowerValue = Nil THEN "0" ELSE a.lowerValue

DeclaredUpper(a) == IF a.upperValue = Nil THEN "1" ELSE a.upperValue

AttributeDescriptors == {i \in DOMAIN out : out[i].kind = "attribute"}

\* C6 as stated: the lower and upper of every emitted attribute descriptor,
\* read back with an omitted lower defaulting to the upper and a lower under a
\* wildcard upper forced to 0, are the declared ones.
C6_RoundTripAsClaimed ==
    \A i \in AttributeDescriptors :
        /\ ReadLowerAsClaimed(out[i].params) = DeclaredLower(properties[out[i].src])
        /\ ReadUpper(out[i].params) = DeclaredUpper(properties[out[i].src])

\* C6 as amended: the lower and upper of every emitted attribute descriptor,
\* read back with an omitted lower being 0 and an omitted upper being 1, are
\* the declared ones (an absent declared lower being 0, an absent upper 1).
C6_RoundTrip ==
    \A i \in AttributeDescriptors :
        /\ ReadLower(out[i].params) = DeclaredLower(properties[out[i].src])
        /\ ReadUpper(out[i].params) = DeclaredUpper(properties[out[i].src])

\* A finished run that emitted a descriptor with a lower of 1 under a wildcard
\* upper.
C6_Witness ==
    /\ pc = "done"
    /\ \E i \in AttributeDescriptors :
          {<<"lower", "1">>, <<"upper", "'*'">>} \subseteq out[i].params

\* ---------------------------------------------------------------- associations
FeatureWriters ==
    {"write_attribute", "write_association", "write_derivedunion", "write_redefine"}

\* The positions of the descriptors written for property p.
FeatureLines(p) ==
    {i \in DOMAIN out : out[i].by \in FeatureWriters /\ out[i].src = p}

NoEntry(p) == ~has_override(Key(properties[p].class_, properties[p].name))

\* A navigable end that is not derived, does not redefine, is not folded and
\* has no entry in the registry, of an association between classes of the
\* table.
PlainEnd(p) ==
    /\ properties[p].class_ \in classes
    /\ properties[p].type \in classes
    /\ ~properties[p].isDerived
    /\ ~Truthy(properties[p].redefinesTag)
    /\ stereotypeName[properties[p].type] # "SimpleAttribute"
    /\ NoEntry(p)

\* b and a are the two plain ends of one association, b owned by A, of upper
\* "*" and composite, a owned by B, the type of b.
CompositePair(b, a) ==
    /\ \E j \in DOMAIN associations :
          associations[j].memberEnd \in {<<a, b>>, <<b, a>>}
    /\ PlainEnd(b) /\ PlainEnd(a)
    /\ properties[a].class_ = properties[b].type
    /\ properties[b].upperValue = "*"
    /\ properties[b].aggregation = "composite"

\* C7: for the two plain navigable ends of an association, b of class A
\* composite with upper "*" and a of class B, the run does not abort and, once
\* finished, has written exactly one descriptor for A.b, an association to B
\* without an upper parameter (the wildcard), composite, with opposite a, and
\* exactly one for B.a, an association with opposite b.
C7_CompositeAssociationPair ==
    \A b, a \in DOMAIN properties :
        CompositePair(b, a) =>
            /\ pc # "aborted"
            /\ pc = "done" =>
                  /\ \E i \in DOMAIN out :
                        /\ FeatureLines(b) = {i}
                        /\ out[i].kind = "association"
                        /\ out[i].cls = properties[b].class_
                        /\ out[i].name = properties[b].name
                        /\ out[i].target = properties[b].type
                        /\ ~HasParam(out[i].params, "upper")
                        /\ <<"composite", "True">> \in out[i].params
                        /\ <<"opposite", properties[a].name>> \in out[i].params
                  /\ \E i \in DOMAIN out :
                        /\ FeatureLines(a) = {i}
                        /\ out[i].kind = "association"
                        /\ out[i].cls = properties[a].class_
                        /\ <<"opposite", properties[b].name>> \in out[i].params

\* A finished run over such a pair of ends, between two classes and on one.
C7_Witness ==
    /\ pc = "done"
    /\ \E b, a \in DOMAIN properties :
          /\ CompositePair(b, a)
          /\ properties[a].class_ # properties[b].class_
          /\ FeatureLines(b) # {} /\ FeatureLines(a) # {}

\* -------------------------------------------------------------- derived unions
UnionTable == Range(DictValues(derivedunions))

UnionLines(d) ==
    {i \in DOMAIN out : out[i].by = "write_derivedunion" /\ out[i].src = d}

EmptyUnion(d) ==
    /\ d \in UnionTable
    /\ enriched[d].union = <<>>
    /\ ~has_override(Key(enriched[d].class_name, properties[d].name))

\* C4: a derived union without members and without override does not abort
\* the run and, once it has finished, has exactly one descriptor, with no
\* members, and exactly one 'no subsets for derived union' message, also when
\* it is a member of another derived union.
C4_EmptyUnionWrittenOnce ==
    \A d \in DOMAIN properties :
        (pc \in {"done", "aborted"} /\ EmptyUnion(d)) =>
            /\ pc = "done"
            /\ \E i \in DOMAIN out : UnionLines(d) = {i} /\ out[i].members = <<>>
            /\ Count(log, LAMBDA m : m = Msg("no subsets for derived union",
                                             enriched[d].class_name,
                                             properties[d].name)) = 1

\* C10: when generate() has finished, every derived union of the table has
\* been written exactly once.
C10_EachUnionWrittenOnce ==
    pc = "done" => \A d \in UnionTable : Cardinality(UnionLines(d)) = 1

\* ------------------------------------------------------------------ stage order
\* The stage of a line as C8 lists the stages; 0 for a comment, which belongs
\* to none.
StageAsClaimed(l) ==
    CASE l.kind = "header" -> 1
      [] IsDecl(l) -> 2
      [] l.by = "write_attribute" -> 3
      [] l.by = "write_association" -> 4
      [] l.by = "write_derivedunion" -> 5
      [] l.by = "write_redefine" -> 6
      [] l.by = "write_operation" -> 7
      [] OTHER -> 0

\* The stage of a line by the loop of generate() that writes it: an attribute
\* folded from an association belongs to the association loop, an attribute
\* that the registry defers to the deferred pass.
Stage(l) ==
    CASE l.kind = "header" -> 1
      [] IsDecl(l) -> 2
      [] l.by = "write_attribute" ->
            IF properties[l.src].association # None THEN 4
            ELSE IF derives(Key(l.cls, l.name)) THEN 5
            ELSE 3
      [] l.by = "write_association" -> 4
      [] l.by = "write_derivedunion" -> 6
      [] l.by = "write_redefine" -> 7
      [] l.by = "write_operation" -> 8
      [] OTHER -> 0

InOrder(StageOf(_)) ==
    \A i, j \in DOMAIN out :
        (i < j /\ StageOf(out[i]) # 0 /\ StageOf(out[j]) # 0) =>
            StageOf(out[i]) <= StageOf(out[j])

\* C8 as stated: no line of an earlier stage follows a line of a later stage,
\* the stages being header, class declarations, attribute descriptors,
\* association descriptors, derived unions, redefines, operations.
C8_StageOrderAsClaimed == InOrder(StageAsClaimed)

\* C8 as amended: the output only grows, and no line of an earlier stage
\* follows a line of a later stage, the stages being header, class
\* declarations, first-pass attributes, the association loop (association
\* descriptors and folded simple attributes), deferred attributes, derived
\* unions, redefines, operations.
C8_StageOrder == [](InOrder(Stage)) /\ [][IsPrefix(out, out')]_vars

\* A finished run in which a folded attribute follows an association
\* descriptor, a deferred attribute follows both, and a derived union, a
\* redefine and an operation were written.
C8_Witness ==
    /\ pc = "done"
    /\ \E i, j, k \in DOMAIN out :
          /\ i < j /\ j < k
          /\ out[i].by = "write_association"
          /\ out[j].by = "write_attribute" /\ Stage(out[j]) = 4
          /\ out[k].by = "write_attribute" /\ Stage(out[k]) = 5
    /\ \E i \in DOMAIN out : out[i].by = "write_operation"


\* ------------------------------------------------------ association end bounds
\* The ends that parse_association_end has enriched.
ParsedEnds == {e \in DOMAIN properties : enriched[e].navigable}

DeclaredOr(value, default) == IF value \in {Nil, ""} THEN default ELSE value

\* The descriptors written by write_association for end e.
AssociationLines(e) ==
    {i \in DOMAIN out : out[i].by = "write_association" /\ out[i].src = e}

\* C11 as stated: the resolved lower of every parsed end is the declared lower
\* when present, else the upper, and 0 whenever the resolved upper is "*".
C11_LowerClampedUnderWildcardUpper ==
    \A e \in ParsedEnds :
        LET upper == DeclaredOr(properties[e].upperValue, "*")
        IN /\ enriched[e].upper = upper
           /\ enriched[e].lower =
                 IF upper = "*" THEN "0"
                 ELSE DeclaredOr(properties[e].lowerValue, upper)

\* C11 as amended: the resolved upper of every parsed end is the declared
\* upper, "*" when absent; the resolved lower is the declared lower when
\* present, else the resolved upper, and is 0 only when that value is itself
\* "*"; a declared lower other than "*" is kept under a wildcard upper, and
\* the association descriptor of the end carries a lower parameter exactly
\* when the resolved lower is not 0.
C11_LowerClampedWhenWildcard ==
    \A e \in ParsedEnds :
        LET upper == DeclaredOr(properties[e].upperValue, "*")
            lower == DeclaredOr(properties[e].lowerValue, upper)
        IN /\ enriched[e].upper = upper
           /\ enriched[e].lower = IF lower = "*" THEN "0" ELSE lower
           /\ \A i \in AssociationLines(e) :
                 /\ HasParam(out[i].params, "lower") <=> lower \notin {"0", "*"}
                 /\ HasParam(out[i].params, "lower") =>
                       Param(out[i].params, "lower") = lower

\* A finished run over an end of declared lower 1 and wildcard upper, and one
\* of declared lower 1 and no upper, both written with lower 1.
C11_Witness ==
    /\ pc = "done"
    /\ \E e \in ParsedEnds :
          /\ properties[e].lowerValue = "1" /\ properties[e].upperValue = "*"
          /\ \E i \in AssociationLines(e) : <<"lower", "1">> \in out[i].params
    /\ \E e \in ParsedEnds :
          /\ properties[e].lowerValue = "1" /\ properties[e].upperValue = Nil
          /\ \E i \in AssociationLines(e) : <<"lower", "1">> \in out[i].params


\* ------------------------------------------------------------------ routing
\* End e belongs to an association that is not folded and whose ends resolve
\* against the classes dict, so that its ends are routed.
Routed(e) ==
    \E j \in DOMAIN associations :
        /\ e \in Range(associations[j].memberEnd)
        /\ \A x \in Range(associations[j].memberEnd) :
              /\ properties[x].type \in classes
              /\ properties[x].class_ # None => properties[x].class_ \in classes
              /\ stereotypeName[properties[x].type] # "SimpleAttribute"

Navigable(e) == properties[e].class_ # None

Redefining(e) == Truthy(properties[e].redefinesTag)

DerivedEnd(e) ==
    properties[e].isDerived \/ derives(Key(properties[e].class_, properties[e].name))

\* The dispositions of end e: the number of its entries in the redefine list,
\* in the derived-union table, and of its association descriptors.
InRedefines(e) == Count(redefines, LAMBDA r : r = e)

InUnionTable(e) == Count(DictValues(derivedunions), LAMBDA d : d = e)

AfterAssociations ==
    pc \in {"link", "derivedattributes", "derivedunions", "redefines",
            "operations", "close", "done"}

\* C12: a run over associations only does not abort on the ends of an
\* association that is not folded, and once the association loop has run
\* every navigable end of such an
\* association is in exactly one disposition: once in the redefine list when
\* it has a redefines tag, derived or not; else once in the derived-union
\* table when it is derived or the registry derives it; else it has exactly
\* one association descriptor. An end that is not navigable is in no
\* disposition and has no descriptor.
C12_OneDispositionByPriority ==
    /\ (pc = "aborted" /\ \A p \in DOMAIN properties : properties[p].association # None) =>
          ~\E e \in DOMAIN properties : Routed(e)
    /\ AfterAssociations =>
          \A e \in DOMAIN properties :
              Routed(e) =>
                  LET disposition ==
                          <<InRedefines(e), InUnionTable(e),
                            Cardinality(AssociationLines(e))>>
                  IN IF ~Navigable(e)
                     THEN disposition = <<0, 0, 0>> /\ FeatureLines(e) = {}
                     ELSE IF Redefining(e) THEN disposition = <<1, 0, 0>>
                     ELSE IF DerivedEnd(e) THEN disposition = <<0, 1, 0>>
                     ELSE disposition = <<0, 0, 1>>

\* A finished run over an association with a navigable end that is derived
\* and redefines, facing a navigable end that the registry derives.
C12_Witness ==
    /\ pc = "done"
    /\ \E e, f \in DOMAIN properties :
          /\ e # f /\ properties[e].association = properties[f].association
          /\ Routed(e) /\ Navigable(e) /\ Navigable(f)
          /\ properties[e].isDerived /\ Redefining(e) /\ InRedefines(e) = 1
          /\ ~properties[f].isDerived /\ ~Redefining(f) /\ InUnionTable(f) = 1


\* -------------------------------------------------------- simple attributes
\* C13: a class whose stereotype name is SimpleAttribute, applied to it or
\* propagated from an ancestor, has no class declaration in the output.
C13_SimpleAttributeNeverDeclared ==
    \A c \in ClassIds :
        stereotypeName[c] = "SimpleAttribute" => Declarations(c) = 0


\* -------------------------------------------------------- removed metaclasses
\* The classes that the metaclass filter has removed from the classes dict.
RemovedMetaclasses ==
    IF pc = "metaclasses" THEN {} ELSE ClassIds \ classes

\* An association end whose type or owning class is a removed metaclass.
RefersToRemoved(e) ==
    /\ properties[e].association # None
    /\ \/ properties[e].type \in RemovedMetaclasses
       \/ properties[e].class_ \in RemovedMetaclasses

\* C14: a run over a schema in which an association end has a removed
\* metaclass as its type or as its owning class raises no error.
C14_RemovedMetaclassIgnored ==
    (\E e \in DOMAIN properties : RefersToRemoved(e)) => pc # "aborted"


\* -------------------------------------------------------- deferred attributes
\* An owned attribute of an emitted class that the first attribute pass
\* defers: the registry derives its 'Class.attr'.
DeferredByFirstPass(p) ==
    /\ properties[p].association = None
    /\ properties[p].class_ \in classes \ ignored_classes
    /\ derives(Key(properties[p].class_, properties[p].name))

\* C15: no attribute that the first pass defers is written twice, and when
\* generate() has finished each of them has been written exactly once.
C15_EachDeferredWrittenOnce ==
    \A p \in DOMAIN properties :
        (FirstPassDone /\ DeferredByFirstPass(p)) =>
            /\ AttributeLines(p) <= 1
            /\ pc = "done" => AttributeLines(p) = 1

=============================================================================
